---- MODULE Spec2Model ----
(***************************************************************************)
(* Model of Server/minimal-server.py: the in-memory stores (projects,      *)
(* files, compiles, backtests), the request handlers that create and read  *)
(* compile and backtest jobs, and the background threads                   *)
(* (simulate_compilation, simulate_backtest) that advance a job record one *)
(* dictionary write at a time.                                             *)
(*                                                                         *)
(* Granularity: one step per store write of a runner thread and one step   *)
(* per statement group of a handler that another thread can interleave     *)
(* with (register the record / start the thread / serialise the response). *)
(* A read by id is one step that returns the record as it is in the store  *)
(* between two writes.  time.sleep() has no effect on the stores and is    *)
(* not a step: every interleaving of the threads is allowed.               *)
(*                                                                         *)
(* Floats are kept in hundredths (0.68 is 68, 1.0 is 100).  Timestamps     *)
(* ("created", "modified") are written once and never read; they are left  *)
(* out of the records.                                                     *)
(*                                                                         *)
(* Specifications: Spec has every step of the jobs.  ReadSpec (jobs and    *)
(* their readers) and FairSpec (jobs alone, with the scheduler's fairness) *)
(* leave out steps that assign nothing the remaining steps read.  ProjSpec *)
(* has the project and file handlers under concurrent requests.            *)
(***************************************************************************)
EXTENDS Integers, Sequences, FiniteSets, TLC

\* ---------------------------------------------------------------- bounds
\* number of uuid4() values the server hands out (jobs of either kind)
MaxJobs == 2
\* number of projects/create requests
MaxProjReq == 2
\* number of files a client adds to one project
MaxFiles == 2

\* ------------------------------------------------------ program constants
\* (a loop that stops one tick early)
TicksShort == 10 - 1
\* range(10) in simulate_backtest
Ticks == 10
\* the divisor of (i + 1) / 10.0
TickDivisor == 10
\* 1.0, in hundredths
ProgressOne == 100
\* final statistics, floats in hundredths
FinalTotalNumberOfTrades == 25
\* (a win rate written in percent, 68.0, where the payload holds 0.68)
FinalWinRatePercent == 68 * 100
\* 0.68
FinalWinRate == 68
FinalTotalNetProfit == 15
FinalSharpeRatio == 120

\* ------------------------------------------------------------ input sets
\* file names a client can send (the one test-server.py sends)
FileNames == {"TestAlgorithm.cs"}
\* fileName values of files/read: a name, or "" for none (None and "" are
\* both falsy in "if file_name:")
FileNameArgs == FileNames \cup {""}
\* values uuid.uuid4() can return
Uuids == 1..MaxJobs
\* ids a client can ask for: every uuid plus one that is never handed out
RequestIds == 1..(MaxJobs + 1)
\* threads serving projects/create
ProjThreads == 1..MaxProjReq
\* projectId values a client can send: every possible project plus one more
RequestProjIds == 1..(MaxProjReq + 1)

VARIABLES
    projects,   \* dict projectId -> project
    files,      \* dict projectId -> list of files
    compiles,   \* dict compileId -> compile_info
    backtests,  \* dict backtestId -> backtest_info
    used,       \* uuid4 values handed out so far
    ppc,        \* per projects/create request: position in create_project
    ppid,       \* per projects/create request: its local project_id
    hpc,        \* per job id: position of the create handler
    rpc,        \* per job id: position of the runner thread
    ri,         \* per backtest id: loop variable i of simulate_backtest
    resp,       \* the response produced by the last step, if it was a request
    req,        \* the request whose handler this step entered, if any
    owner       \* history: the projectId each backtest was created with
                \* (create_backtest reads it and does not store it)

stores == <<projects, files, compiles, backtests>>
vars == <<projects, files, compiles, backtests, used, ppc, ppid, hpc, rpc, ri, resp, req, owner>>

\* no response produced by this step
NoResp == [op |-> "none"]

\* ---------------------------------------------------------- authorization
\* An Authorization header, split where authenticate() splits it:
\* prefix is auth_header[:7] and rest is auth_header[7:].
\* no Authorization header (request.headers.get returns None)
NoHeader == [prefix |-> "", rest |-> ""]

\* VALID_TOKENS
VALID_TOKENS == {"demo-token-123", "test-token-456"}

\* the header test-server.py sends
TestHeader == [prefix |-> "Bearer ", rest |-> "demo-token-123"]

\* the headers of authenticated clients
ClientHeaders == {TestHeader}

\* the headers any client can send: none, a valid one, a Bearer header with
\* an unknown token, and a valid token without the "Bearer " prefix
AnyHeaders ==
    {NoHeader,
     TestHeader,
     [prefix |-> "Bearer ", rest |-> "wrong-token"],
     [prefix |-> "demo-to", rest |-> "ken-123"]}

\* def authenticate() of line 30: the token check
authenticate_helper(h) ==
    IF h = NoHeader THEN FALSE
    ELSE IF h.prefix = "Bearer " THEN h.rest \in VALID_TOKENS
    ELSE FALSE

\* def authenticate() of line 54, the view of /api/v2/authenticate: its
\* return value, a Response object
authenticate_view == [success |-> TRUE, message |-> "Authentication successful"]

\* bool(x) of a Response object: it defines neither __bool__ nor __len__
Truthy(response) == TRUE

\* authenticate() as before_request calls it: the module-level name is
\* looked up at the call, after line 54 has rebound it to the view, and the
\* view takes no header into account
authenticate(h) == Truthy(authenticate_view)

\* before_request answers 401 instead of running the handler
before_request_rejects(endpoint, h) ==
    /\ endpoint # "authenticate"
    /\ ~authenticate(h)

\* {"success": False, "errors": ["Unauthorized"]}
Unauthorized == [success |-> FALSE, errors |-> <<"Unauthorized">>]

\* this step entered no handler
NoReq == [op |-> "none", auth |-> NoHeader, arg |-> 0]

\* an id generator that returns the same value at every call
uuid4_repeated == CHOOSE u \in Uuids : \A v \in Uuids : u <= v

\* uuid.uuid4(): a value different from every value handed out before
\* (which one is immaterial: the lowest unused one is taken)
uuid4 == CHOOSE u \in Uuids \ used : \A v \in Uuids \ used : u <= v

Init ==
    /\ projects = <<>>
    /\ files = <<>>
    /\ compiles = <<>>
    /\ backtests = <<>>
    /\ used = {}
    /\ ppc = [t \in ProjThreads |-> "idle"]
    /\ ppid = [t \in ProjThreads |-> 0]
    /\ hpc = [u \in Uuids |-> "none"]
    /\ rpc = [u \in Uuids |-> "none"]
    /\ ri = [u \in Uuids |-> 0]
    /\ resp = NoResp
    /\ req = NoReq
    /\ owner = <<>>

\* the dict rebound to a new one that holds only the new entry
PutAlone(d, k, v) == (k :> v)

\* d[k] = v on a Python dict
Put(d, k, v) == (k :> v) @@ d

\* ------------------------------------------------------- projects/create
\* project_id = len(projects) + 1
create_project_id(t, h) ==
    /\ ~before_request_rejects("create_project", h)
    /\ ppc[t] = "idle"
    /\ ppid' = [ppid EXCEPT ![t] = Cardinality(DOMAIN projects) + 1]
    /\ ppc' = [ppc EXCEPT ![t] = "computed"]
    /\ resp' = NoResp
    /\ req' = [op |-> "create_project", auth |-> h, arg |-> t]
    /\ UNCHANGED <<owner, projects, files, compiles, backtests, used, hpc, rpc, ri>>

\* the project dict of request t (the request's name is its own)
Project(t) == [projectId |-> ppid[t], name |-> t]

\* projects[project_id] = project
create_project_put(t) ==
    /\ ppc[t] = "computed"
    /\ projects' = Put(projects, ppid[t], Project(t))
    /\ ppc' = [ppc EXCEPT ![t] = "stored"]
    /\ resp' = NoResp
    /\ req' = NoReq
    /\ UNCHANGED <<owner, files, compiles, backtests, used, ppid, hpc, rpc, ri>>

\* files[project_id] = [] ; return jsonify(...)
create_project_files(t) ==
    /\ ppc[t] = "stored"
    /\ files' = Put(files, ppid[t], <<>>)
    /\ ppc' = [ppc EXCEPT ![t] = "done"]
    /\ resp' = [op |-> "create_project", id |-> ppid[t],
                body |-> [success |-> TRUE, projects |-> <<Project(t)>>, errors |-> <<>>]]
    /\ req' = NoReq
    /\ UNCHANGED <<owner, projects, compiles, backtests, used, ppid, hpc, rpc, ri>>

\* a create handler that never takes the early return
project_exists_unchecked(p) == TRUE

\* project_id in projects
project_exists(p) == p \in DOMAIN projects

\* ---------------------------------------------- files/create, files/read
\* the outcome of a handler that raised KeyError
KeyError == [raised |-> "KeyError"]

\* {"success": False, "files": [], "errors": ["Project not found"]}
FilesProjectNotFound ==
    [success |-> FALSE, files |-> <<>>, errors |-> <<"Project not found">>]

\* {"success": False, "files": [], "errors": ["File not found"]}
FileNotFound ==
    [success |-> FALSE, files |-> <<>>, errors |-> <<"File not found">>]

\* file_info as built by create_file, with the default content
file_info(name) == [name |-> name, content |-> ""]

\* files/create.  The membership test and the append are taken in one step,
\* at the time of the append: no entry of projects is ever removed, so the
\* test has the same outcome at both times.
create_file(p, name, h) ==
    /\ ~before_request_rejects("create_file", h)
    /\ p \in DOMAIN files => Len(files[p]) < MaxFiles
    /\ req' = [op |-> "create_file", auth |-> h, arg |-> p]
    /\ IF ~project_exists(p)
         THEN /\ resp' = [op |-> "create_file", id |-> p, body |-> FilesProjectNotFound]
              /\ files' = files
         ELSE IF p \notin DOMAIN files
         THEN /\ resp' = [op |-> "create_file", id |-> p, body |-> KeyError]
              /\ files' = files
         ELSE /\ files' = [files EXCEPT ![p] = Append(@, file_info(name))]
              /\ resp' = [op |-> "create_file", id |-> p,
                          body |-> [success |-> TRUE, files |-> files'[p], errors |-> <<>>]]
    /\ UNCHANGED <<owner, projects, compiles, backtests, used, ppc, ppid, hpc, rpc, ri>>

\* the payload of read_files once project_files is bound
read_files_found(project_files, file_name) ==
    IF file_name # ""
    THEN LET hits == SelectSeq(project_files, LAMBDA f : f.name = file_name)
         IN  IF hits # <<>>
             THEN [success |-> TRUE, files |-> <<Head(hits)>>, errors |-> <<>>]
             ELSE FileNotFound
    ELSE [success |-> TRUE, files |-> project_files, errors |-> <<>>]

\* the payload of read_files
read_files_body(p, file_name) ==
    IF ~project_exists(p) THEN FilesProjectNotFound
    ELSE IF p \notin DOMAIN files THEN KeyError
    ELSE read_files_found(files[p], file_name)

\* files/read
read_files(p, file_name, h) ==
    /\ ~before_request_rejects("read_files", h)
    /\ req' = [op |-> "read_files", auth |-> h, arg |-> p]
    /\ resp' = [op |-> "read_files", id |-> p, body |-> read_files_body(p, file_name)]
    /\ UNCHANGED <<owner, projects, files, compiles, backtests, used, ppc, ppid, hpc, rpc, ri>>

\* {"success": False, "errors": ["Project not found"]}
ProjectNotFound == [success |-> FALSE, errors |-> <<"Project not found">>]

\* ------------------------------------------------------- compile/create
\* a compile_info whose logs start empty
compile_info_nolog(id) ==
    [compileId |-> id,
     state |-> "InQueue",
     logs |-> <<>>,
     success |-> TRUE,
     errors |-> <<>>]

\* compile_info as built by create_compile
compile_info(id) ==
    [compileId |-> id,
     state |-> "InQueue",
     logs |-> <<"Compilation started">>,
     success |-> TRUE,
     errors |-> <<>>]

\* a runner that looks its id up when it runs and finds the id of the job
\* created last
closure_id_latest(id) == CHOOSE u \in used : \A v \in used : v <= u

\* the record a runner thread writes: the id captured by its closure
closure_id(id) == id

\* create_compile when the project does not exist: the early return
create_compile_rejected(p, h) ==
    /\ ~before_request_rejects("create_compile", h)
    /\ ~project_exists(p)
    /\ resp' = [op |-> "create_compile", id |-> 0, body |-> ProjectNotFound]
    /\ req' = [op |-> "create_compile", auth |-> h, arg |-> p]
    /\ UNCHANGED <<owner, projects, files, compiles, backtests, used, ppc, ppid, hpc, rpc, ri>>

\* create_compile up to compiles[compile_id] = compile_info
create_compile(p, h) ==
    /\ ~before_request_rejects("create_compile", h)
    /\ project_exists(p)
    /\ used # Uuids
    /\ used' = used \cup {uuid4}
    /\ compiles' = Put(compiles, uuid4, compile_info(uuid4))
    /\ hpc' = [hpc EXCEPT ![uuid4] = "registered_compile"]
    /\ resp' = NoResp
    /\ req' = [op |-> "create_compile", auth |-> h, arg |-> p]
    /\ UNCHANGED <<owner, projects, files, backtests, ppc, ppid, rpc, ri>>

\* threading.Thread(target=simulate_compilation).start()
create_compile_start(id) ==
    /\ hpc[id] = "registered_compile"
    /\ hpc' = [hpc EXCEPT ![id] = "started_compile"]
    /\ rpc' = [rpc EXCEPT ![id] = "state"]
    /\ resp' = NoResp
    /\ req' = NoReq
    /\ UNCHANGED <<owner, projects, files, compiles, backtests, used, ppc, ppid, ri>>

\* return jsonify(compile_info): serialises the shared dict as it is now
create_compile_return(id) ==
    /\ hpc[id] = "started_compile"
    /\ hpc' = [hpc EXCEPT ![id] = "returned"]
    /\ resp' = [op |-> "create_compile", id |-> id, body |-> compiles[id]]
    /\ req' = NoReq
    /\ UNCHANGED <<owner, projects, files, compiles, backtests, used, ppc, ppid, rpc, ri>>

\* the failure state that test-server.py polls for
BuildStateError == "BuildError"

\* the state written by simulate_compilation
BuildState == "BuildSuccess"

\* the log line appended by simulate_compilation
CompletedLine == "Compilation completed successfully"

\* compiles[compile_id]["state"] = "BuildSuccess"   (after time.sleep(2))
simulate_compilation_state(id) ==
    /\ rpc[id] = "state"
    /\ closure_id(id) \in DOMAIN compiles
    /\ compiles' = [compiles EXCEPT ![closure_id(id)].state = BuildState]
    /\ rpc' = [rpc EXCEPT ![id] = "logs"]
    /\ resp' = NoResp
    /\ req' = NoReq
    /\ UNCHANGED <<owner, projects, files, backtests, used, ppc, ppid, hpc, ri>>

\* the line inserted at the head of logs: logs.insert(0, ...)
prepend_logs(logs) == <<CompletedLine>> \o logs

\* the logs assigned instead of appended to
replace_logs(logs) == <<CompletedLine>>

\* logs.append("Compilation completed successfully")
append_logs(logs) == Append(logs, CompletedLine)

\* compiles[compile_id]["logs"].append("Compilation completed successfully")
simulate_compilation_logs(id) ==
    /\ rpc[id] = "logs"
    /\ closure_id(id) \in DOMAIN compiles
    /\ compiles' = [compiles EXCEPT ![closure_id(id)].logs = append_logs(@)]
    /\ rpc' = [rpc EXCEPT ![id] = "done"]
    /\ resp' = NoResp
    /\ req' = NoReq
    /\ UNCHANGED <<owner, projects, files, backtests, used, ppc, ppid, hpc, ri>>

\* d[k] read from a Python dict
Subscript(d, k) == IF k \in DOMAIN d THEN d[k] ELSE KeyError

\* {"success": False, "errors": ["Compile job not found"]}
CompileNotFound == [success |-> FALSE, errors |-> <<"Compile job not found">>]

\* the payload of read_compile for compile_id = id
read_compile_body(id) ==
    IF id \notin DOMAIN compiles THEN CompileNotFound ELSE Subscript(compiles, id)

\* compile/read
read_compile(id, h) ==
    /\ ~before_request_rejects("read_compile", h)
    /\ resp' = [op |-> "read_compile", id |-> id, body |-> read_compile_body(id)]
    /\ req' = [op |-> "read_compile", auth |-> h, arg |-> id]
    /\ UNCHANGED <<owner, projects, files, compiles, backtests, used, ppc, ppid, hpc, rpc, ri>>

\* ------------------------------------------------------ backtests/create
\* None, the value of data.get(key) and of bt.get(key) for a missing key
PyNone == 0

\* compileId values a backtests/create can carry: none, the id of a job of
\* the server, or an id the server never handed out
CompileIdArgs == RequestIds \cup {PyNone}

\* backtestName values a client can send (the one test-server.py sends);
\* the name is stored at creation and never read or written again
BacktestNames == {"Test Backtest"}

\* the zero-valued "result" of a new backtest
ZeroResult ==
    [TotalPerformance |->
        [TradeStatistics |-> [TotalNumberOfTrades |-> 0, WinRate |-> 0],
         PortfolioStatistics |-> [TotalNetProfit |-> 0, SharpeRatio |-> 0]],
     Charts |-> <<>>,
     Orders |-> <<>>,
     Statistics |-> <<>>]

\* backtest_info as built by create_backtest
backtest_info(id, backtest_name) ==
    [name |-> backtest_name,
     note |-> "",
     backtestId |-> id,
     completed |-> FALSE,
     progress |-> 0,
     result |-> ZeroResult,
     error |-> "",
     stacktrace |-> "",
     success |-> TRUE,
     errors |-> <<>>]

\* create_backtest when the project does not exist: the early return
create_backtest_rejected(p, h) ==
    /\ ~before_request_rejects("create_backtest", h)
    /\ ~project_exists(p)
    /\ resp' = [op |-> "create_backtest", id |-> 0, body |-> ProjectNotFound]
    /\ req' = [op |-> "create_backtest", auth |-> h, arg |-> p]
    /\ UNCHANGED <<owner, projects, files, compiles, backtests, used, ppc, ppid, hpc, rpc, ri>>

\* a create_backtest that looks its compile job up and takes an early
\* return unless that job has reached BuildSuccess
create_backtest_after_build(p, compile_id, backtest_name, h) ==
    /\ ~before_request_rejects("create_backtest", h)
    /\ project_exists(p)
    /\ used # Uuids
    /\ IF compile_id \in DOMAIN compiles /\ compiles[compile_id].state = "BuildSuccess"
         THEN /\ used' = used \cup {uuid4}
              /\ backtests' = Put(backtests, uuid4, backtest_info(uuid4, backtest_name))
              /\ hpc' = [hpc EXCEPT ![uuid4] = "registered_backtest"]
              /\ owner' = Put(owner, uuid4, p)
              /\ resp' = NoResp
              /\ req' = [op |-> "create_backtest", auth |-> h, arg |-> p,
                         compileId |-> compile_id, id |-> uuid4]
         ELSE /\ resp' = [op |-> "create_backtest", id |-> 0, body |-> [success |-> FALSE,
                                    errors |-> <<"Compile job not finished">>]]
              /\ req' = [op |-> "create_backtest", auth |-> h, arg |-> p,
                         compileId |-> compile_id, id |-> 0]
              /\ UNCHANGED <<used, backtests, hpc, owner>>
    /\ UNCHANGED <<projects, files, compiles, ppc, ppid, rpc, ri>>

\* create_backtest up to backtests[backtest_id] = backtest_info; compile_id
\* is read from the request (line 199) and used nowhere
create_backtest(p, compile_id, backtest_name, h) ==
    /\ ~before_request_rejects("create_backtest", h)
    /\ project_exists(p)
    /\ used # Uuids
    /\ used' = used \cup {uuid4}
    /\ backtests' = Put(backtests, uuid4, backtest_info(uuid4, backtest_name))
    /\ hpc' = [hpc EXCEPT ![uuid4] = "registered_backtest"]
    /\ owner' = Put(owner, uuid4, p)
    /\ resp' = NoResp
    /\ req' = [op |-> "create_backtest", auth |-> h, arg |-> p,
               compileId |-> compile_id, id |-> uuid4]
    /\ UNCHANGED <<projects, files, compiles, ppc, ppid, rpc, ri>>

\* threading.Thread(target=simulate_backtest).start()
create_backtest_start(id) ==
    /\ hpc[id] = "registered_backtest"
    /\ hpc' = [hpc EXCEPT ![id] = "started_backtest"]
    /\ rpc' = [rpc EXCEPT ![id] = "tick"]
    /\ resp' = NoResp
    /\ req' = NoReq
    /\ UNCHANGED <<owner, projects, files, compiles, backtests, used, ppc, ppid, ri>>

\* return jsonify(backtest_info): serialises the shared dict as it is now
create_backtest_return(id) ==
    /\ hpc[id] = "started_backtest"
    /\ hpc' = [hpc EXCEPT ![id] = "returned"]
    /\ resp' = [op |-> "create_backtest", id |-> id, body |-> backtests[id]]
    /\ req' = NoReq
    /\ UNCHANGED <<owner, projects, files, compiles, backtests, used, ppc, ppid, rpc, ri>>

\* the loop variable used without the + 1: i / 10.0
TickProgressOffByOne(i) == (i * ProgressOne) \div TickDivisor

\* the share of the ticks still to run instead of the share that has run
TickProgressRemaining(i) == ((Ticks - (i + 1)) * ProgressOne) \div TickDivisor

\* (i + 1) / 10.0, in hundredths
TickProgress(i) == ((i + 1) * ProgressOne) \div TickDivisor

\* one iteration of the loop: backtests[backtest_id]["progress"] = (i + 1) / 10.0
simulate_backtest_tick(id) ==
    /\ rpc[id] = "tick"
    /\ closure_id(id) \in DOMAIN backtests
    /\ backtests' = [backtests EXCEPT ![closure_id(id)].progress = TickProgress(ri[id])]
    /\ ri' = [ri EXCEPT ![id] = @ + 1]
    /\ rpc' = [rpc EXCEPT ![id] = IF ri[id] + 1 < Ticks THEN "tick" ELSE "completed"]
    /\ resp' = NoResp
    /\ req' = NoReq
    /\ UNCHANGED <<owner, projects, files, compiles, used, ppc, ppid, hpc>>

\* backtests[backtest_id]["completed"] = True
simulate_backtest_completed(id) ==
    /\ rpc[id] = "completed"
    /\ closure_id(id) \in DOMAIN backtests
    /\ backtests' = [backtests EXCEPT ![closure_id(id)].completed = TRUE]
    /\ rpc' = [rpc EXCEPT ![id] = "progress"]
    /\ resp' = NoResp
    /\ req' = NoReq
    /\ UNCHANGED <<owner, projects, files, compiles, used, ppc, ppid, hpc, ri>>

\* backtests[backtest_id]["progress"] = 1.0
simulate_backtest_progress(id) ==
    /\ rpc[id] = "progress"
    /\ closure_id(id) \in DOMAIN backtests
    /\ backtests' = [backtests EXCEPT ![closure_id(id)].progress = ProgressOne]
    /\ rpc' = [rpc EXCEPT ![id] = "trades"]
    /\ resp' = NoResp
    /\ req' = NoReq
    /\ UNCHANGED <<owner, projects, files, compiles, used, ppc, ppid, hpc, ri>>

\* ...["TradeStatistics"]["TotalNumberOfTrades"] = 25
simulate_backtest_trades(id) ==
    /\ rpc[id] = "trades"
    /\ closure_id(id) \in DOMAIN backtests
    /\ backtests' = [backtests EXCEPT
          ![closure_id(id)].result.TotalPerformance.TradeStatistics.TotalNumberOfTrades
              = FinalTotalNumberOfTrades]
    /\ rpc' = [rpc EXCEPT ![id] = "winrate"]
    /\ resp' = NoResp
    /\ req' = NoReq
    /\ UNCHANGED <<owner, projects, files, compiles, used, ppc, ppid, hpc, ri>>

\* ...["TradeStatistics"]["WinRate"] = 0.68
simulate_backtest_winrate(id) ==
    /\ rpc[id] = "winrate"
    /\ closure_id(id) \in DOMAIN backtests
    /\ backtests' = [backtests EXCEPT
          ![closure_id(id)].result.TotalPerformance.TradeStatistics.WinRate = FinalWinRate]
    /\ rpc' = [rpc EXCEPT ![id] = "netprofit"]
    /\ resp' = NoResp
    /\ req' = NoReq
    /\ UNCHANGED <<owner, projects, files, compiles, used, ppc, ppid, hpc, ri>>

\* ...["PortfolioStatistics"]["TotalNetProfit"] = 0.15
simulate_backtest_netprofit(id) ==
    /\ rpc[id] = "netprofit"
    /\ closure_id(id) \in DOMAIN backtests
    /\ backtests' = [backtests EXCEPT
          ![closure_id(id)].result.TotalPerformance.PortfolioStatistics.TotalNetProfit
              = FinalTotalNetProfit]
    /\ rpc' = [rpc EXCEPT ![id] = "sharpe"]
    /\ resp' = NoResp
    /\ req' = NoReq
    /\ UNCHANGED <<owner, projects, files, compiles, used, ppc, ppid, hpc, ri>>

\* ...["PortfolioStatistics"]["SharpeRatio"] = 1.2
simulate_backtest_sharpe(id) ==
    /\ rpc[id] = "sharpe"
    /\ closure_id(id) \in DOMAIN backtests
    /\ backtests' = [backtests EXCEPT
          ![closure_id(id)].result.TotalPerformance.PortfolioStatistics.SharpeRatio
              = FinalSharpeRatio]
    /\ rpc' = [rpc EXCEPT ![id] = "done"]
    /\ resp' = NoResp
    /\ req' = NoReq
    /\ UNCHANGED <<owner, projects, files, compiles, used, ppc, ppid, hpc, ri>>

\* {"success": False, "errors": ["Backtest not found"]}
BacktestNotFound == [success |-> FALSE, errors |-> <<"Backtest not found">>]

\* the membership test of read_backtest inverted
read_backtest_body_inverted(id) ==
    IF id \notin DOMAIN backtests THEN Subscript(backtests, id) ELSE BacktestNotFound

\* the payload of read_backtest for a given (non-empty) backtestId
read_backtest_body(id) ==
    IF id \in DOMAIN backtests THEN Subscript(backtests, id) ELSE BacktestNotFound

\* a read that takes the record out of the store: backtests.pop(backtest_id)
read_backtest_pop(id, h) ==
    /\ ~before_request_rejects("read_backtest", h)
    /\ resp' = [op |-> "read_backtest", id |-> id, body |-> read_backtest_body(id)]
    /\ req' = [op |-> "read_backtest", auth |-> h, arg |-> id]
    /\ backtests' = [b \in DOMAIN backtests \ {id} |-> backtests[b]]
    /\ UNCHANGED <<owner, projects, files, compiles, used, ppc, ppid, hpc, rpc, ri>>

\* backtests/read with a backtestId
read_backtest(id, h) ==
    /\ ~before_request_rejects("read_backtest", h)
    /\ resp' = [op |-> "read_backtest", id |-> id, body |-> read_backtest_body(id)]
    /\ req' = [op |-> "read_backtest", auth |-> h, arg |-> id]
    /\ UNCHANGED <<owner, projects, files, compiles, backtests, used, ppc, ppid, hpc, rpc, ri>>

\* projectId values a backtests/read without backtestId can carry
ListProjIds == RequestProjIds \cup {PyNone}

\* bt.get(key) on a record
DictGet(rec, key) == IF key \in DOMAIN rec THEN rec[key] ELSE PyNone

\* the values of a dict whose keys are ids, in insertion order (ids are
\* handed out in increasing order)
RECURSIVE values_from(_, _)
values_from(d, ids) ==
    IF ids = {} THEN <<>>
    ELSE LET k == CHOOSE x \in ids : \A y \in ids : x <= y
         IN  <<d[k]>> \o values_from(d, ids \ {k})

\* backtests.values()
backtests_values == values_from(backtests, DOMAIN backtests)

\* bt.get("projectId") == project_id
list_filter(bt, p) == DictGet(bt, "projectId") = p

\* [bt for bt in backtests.values() if bt.get("projectId") == project_id]
project_backtests(p) == SelectSeq(backtests_values, LAMBDA bt : list_filter(bt, p))

\* backtests/read without a backtestId
read_backtest_list(p, h) ==
    /\ ~before_request_rejects("read_backtest", h)
    /\ resp' = [op |-> "read_backtest_list", id |-> p,
                body |-> [success |-> TRUE,
                          backtests |-> project_backtests(p),
                          errors |-> <<>>]]
    /\ req' = [op |-> "read_backtest_list", auth |-> h, arg |-> p]
    /\ UNCHANGED <<owner, projects, files, compiles, backtests, used, ppc, ppid, hpc, rpc, ri>>

\* GET /api/v2/authenticate
authenticate_endpoint(h) ==
    /\ ~before_request_rejects("authenticate", h)
    /\ resp' = [op |-> "authenticate", id |-> 0, body |-> authenticate_view]
    /\ req' = [op |-> "authenticate", auth |-> h, arg |-> 0]
    /\ UNCHANGED <<owner, projects, files, compiles, backtests, used, ppc, ppid, hpc, rpc, ri>>

\* ------------------------------------------------------------ the system
\* the steps of the runner thread of job id
RunnerStep(id) ==
    \/ simulate_compilation_state(id)
    \/ simulate_compilation_logs(id)
    \/ simulate_backtest_tick(id)
    \/ simulate_backtest_completed(id)
    \/ simulate_backtest_progress(id)
    \/ simulate_backtest_trades(id)
    \/ simulate_backtest_winrate(id)
    \/ simulate_backtest_netprofit(id)
    \/ simulate_backtest_sharpe(id)

\* the create handler of job id starts the runner thread
StartStep(id) ==
    \/ create_compile_start(id)
    \/ create_backtest_start(id)

\* the create handler of job id serialises its response and returns
ReturnStep(id) ==
    \/ create_compile_return(id)
    \/ create_backtest_return(id)

\* the requests that assign no store and move no thread, sent with a header
\* of H: compile/read, backtests/read with and without an id, and the
\* creates that are rejected
QueryStepOf(H) ==
    \/ \E id \in RequestIds, h \in H : read_compile(id, h)
    \/ \E id \in RequestIds, h \in H : read_backtest(id, h)
    \/ \E p \in ListProjIds, h \in H : read_backtest_list(p, h)
    \/ \E p \in RequestProjIds, h \in H : create_compile_rejected(p, h)
    \/ \E p \in RequestProjIds, h \in H : create_backtest_rejected(p, h)

\* The steps that write a store or start a thread, the requests sent with a
\* header of H: one projects/create request makes the project, then jobs
\* are registered, started and run.
NextRunOf(H) ==
    \/ \E h \in H : create_project_id(1, h)
    \/ create_project_put(1)
    \/ create_project_files(1)
    \/ \E p \in RequestProjIds, h \in H : create_compile(p, h)
    \/ \E p \in RequestProjIds, c \in CompileIdArgs, n \in BacktestNames, h \in H :
           create_backtest(p, c, n, h)
    \/ \E id \in Uuids : StartStep(id)
    \/ \E id \in Uuids : RunnerStep(id)

\* the same, for authenticated clients
QueryStep == QueryStepOf(ClientHeaders)
NextRun == NextRunOf(ClientHeaders)

\* Every step of the server
Next ==
    \/ NextRun
    \/ \E id \in Uuids : ReturnStep(id)
    \/ QueryStep

Spec == Init /\ [][Next]_vars

\* The jobs alone
RunSpec == Init /\ [][NextRun]_vars

\* The jobs and their readers.  The return of a create handler assigns only
\* hpc and resp, which no runner and no reader reads, so the handlers'
\* returns are left out of this specification.
ReadSpec == Init /\ [][NextRun \/ QueryStep]_vars

\* The jobs and the returns of their create handlers, without the readers.
HandlerSpec == Init /\ [][NextRun \/ \E id \in Uuids : ReturnStep(id)]_vars

\* The jobs and their readers, for clients that send any header.
AuthSpec ==
    Init /\ [][\/ NextRunOf(AnyHeaders)
               \/ QueryStepOf(AnyHeaders)
               \/ \E h \in AnyHeaders : authenticate_endpoint(h)]_vars

\* The project store under concurrent requests: every projects/create
\* request runs in its own thread, next to files/create and files/read.
NextProj ==
    \/ \E t \in ProjThreads, h \in ClientHeaders : create_project_id(t, h)
    \/ \E t \in ProjThreads : create_project_put(t)
    \/ \E t \in ProjThreads : create_project_files(t)
    \/ \E p \in RequestProjIds, n \in FileNames, h \in ClientHeaders : create_file(p, n, h)
    \/ \E p \in RequestProjIds, n \in FileNameArgs, h \in ClientHeaders : read_files(p, n, h)

ProjSpec == Init /\ [][NextProj]_vars

\* The scheduler keeps running every started thread: a handler that has
\* registered a job goes on to start its runner, and a runner goes on to
\* its next write.  The steps of QueryStep and ReturnStep assign no
\* variable that a runner reads, so they are left out of this specification.
Fairness == \A id \in Uuids : WF_vars(StartStep(id)) /\ WF_vars(RunnerStep(id))
FairSpec == Init /\ [][NextRun]_vars /\ Fairness

\* ================================================================ claims
\* the four result statistics of a backtest record
Stats(b) ==
    <<b.result.TotalPerformance.TradeStatistics.TotalNumberOfTrades,
      b.result.TotalPerformance.TradeStatistics.WinRate,
      b.result.TotalPerformance.PortfolioStatistics.TotalNetProfit,
      b.result.TotalPerformance.PortfolioStatistics.SharpeRatio>>

ZeroStats == <<0, 0, 0, 0>>
TerminalStats == <<25, 68, 15, 120>>

\* the last step was a backtests/read that found its record
ReadFoundBacktest == resp.op = "read_backtest" /\ resp.id \in DOMAIN backtests

\* the last step was a compile/read that found its record
ReadFoundCompile == resp.op = "read_compile" /\ resp.id \in DOMAIN compiles

\* every backtest record a read can return: what a read of each id would
\* return in this state, and what the read that has just run did return
ObservableBacktests ==
    {read_backtest_body(id) : id \in DOMAIN backtests}
        \cup (IF ReadFoundBacktest THEN {resp.body} ELSE {})

\* C1: in every state a read can observe, completed false goes with the four
\* statistics at zero and completed true goes with the terminal payload
\* (25, 0.68, 0.15, 1.2).
C1_ResultMatchesCompleted ==
    \A b \in ObservableBacktests :
        /\ ~b.completed => Stats(b) = ZeroStats
        /\ b.completed => Stats(b) = TerminalStats

\* C2 as stated: in every state a read can observe, progress is 1.0 if and
\* only if completed is true.
C2_ProgressOneIffCompleted ==
    \A b \in ObservableBacktests : (b.progress = 100) <=> b.completed

\* C2 as amended: in every state a read can observe, completed true implies
\* progress 1.0 (progress 1.0 is written by the 10th tick, before completed).
C2_CompletedImpliesProgressOne ==
    \A b \in ObservableBacktests : b.completed => b.progress = 100

\* a read has returned a completed backtest with progress 1.0
C2_Witness ==
    ReadFoundBacktest /\ resp.body.completed /\ resp.body.progress = 100
\* C3: once a read has returned a backtest with completed true, no field of
\* that record changes afterwards; once a compile record is in state
\* BuildSuccess, no field of it other than logs changes afterwards.
C3_TerminalRecordsFrozen ==
    [][/\ \A id \in DOMAIN backtests :
              (ReadFoundBacktest /\ resp.id = id /\ resp.body.completed)
                  => backtests'[id] = resp.body
       /\ \A id \in DOMAIN compiles :
              compiles[id].state = "BuildSuccess"
                  => [compiles'[id] EXCEPT !.logs = <<>>]
                         = [compiles[id] EXCEPT !.logs = <<>>]]_vars

\* C4: in every state a read can observe, the four statistics are all at
\* their zero value or all at their terminal value.
C4_StatsAllOrNothing ==
    \A b \in ObservableBacktests : Stats(b) \in {ZeroStats, TerminalStats}

\* C5: the progress of a backtest record never decreases from one state to
\* the next and lies in [0.0, 1.0], and a read returns the record's progress
\* as it is at the read, so a later read never returns less than an earlier.
C5_ProgressMonotone ==
    [][\A id \in DOMAIN backtests :
          /\ backtests[id].progress <= backtests'[id].progress
          /\ 0 <= backtests[id].progress
          /\ backtests'[id].progress <= 100
          /\ (resp'.op = "read_backtest" /\ resp'.id = id)
                 => resp'.body.progress = backtests'[id].progress]_vars

\* a read has returned a progress strictly between 0.0 and 1.0
C5_Witness ==
    ReadFoundBacktest /\ resp.body.progress = 50

\* the terminal state of backtest id: completed, progress 1.0, fixed payload
BacktestTerminal(id) ==
    /\ id \in DOMAIN backtests
    /\ backtests[id].completed
    /\ backtests[id].progress = 100
    /\ Stats(backtests[id]) = TerminalStats

\* C6: every backtest job that has been created eventually is completed with
\* progress 1.0 and the statistics 25, 0.68, 0.15, 1.2, and stays so forever.
C6_BacktestEventuallyTerminal ==
    \A id \in Uuids : (id \in DOMAIN backtests) ~> [](BacktestTerminal(id))

\* a backtest runner has finished and its record is terminal
C6_Witness ==
    \E id \in DOMAIN backtests : rpc[id] = "done" /\ BacktestTerminal(id)

\* the terminal state of compile id
CompileTerminal(id) ==
    /\ id \in DOMAIN compiles
    /\ compiles[id].state = "BuildSuccess"
    /\ Len(compiles[id].logs) >= 2
    /\ compiles[id].logs[Len(compiles[id].logs)] = "Compilation completed successfully"

\* C7: every compile job that has been created eventually is in state
\* BuildSuccess with at least two log lines, the last of them "Compilation
\* completed successfully", and stays so forever.
C7_CompileEventuallyTerminal ==
    \A id \in Uuids : (id \in DOMAIN compiles) ~> [](CompileTerminal(id))

\* a compile runner has finished and its record is terminal
C7_Witness ==
    \E id \in DOMAIN compiles : rpc[id] = "done" /\ CompileTerminal(id)

\* a compile record as a read must see it before the runner's first write
CompileInitialShape(c) ==
    /\ c.state = "InQueue"
    /\ Len(c.logs) >= 1
    /\ c.logs[1] = "Compilation started"
    /\ c.success = TRUE
    /\ c.errors = <<>>

\* C8: from the registration of a compile job until its runner's first write,
\* every read of it returns state InQueue, logs starting with "Compilation
\* started", success true and no errors.
C8_CompileInitialUntilFirstWrite ==
    \A id \in DOMAIN compiles :
        rpc[id] \in {"none", "state"} =>
            /\ CompileInitialShape(read_compile_body(id))
            /\ (ReadFoundCompile /\ resp.id = id) => CompileInitialShape(resp.body)

\* a read has returned a compile record whose runner is started and has not
\* written yet
C8_Witness ==
    ReadFoundCompile /\ rpc[resp.id] = "state" /\ resp.body.state = "InQueue"

\* a not-found payload: success false and a non-empty errors list
NotFoundShape(body, message) ==
    /\ body # KeyError
    /\ body.success = FALSE
    /\ Len(body.errors) >= 1
    /\ body.errors = <<message>>

\* C9: a read of a compile id or of a backtest id that is not in its store
\* (never created, or the id of a job of the other kind) returns success
\* false with the errors list ["Compile job not found"] / ["Backtest not
\* found"], raises nothing and leaves every store unchanged.
C9_UnknownIdNotFound ==
    [][/\ (resp'.op = "read_compile" /\ resp'.id \notin DOMAIN compiles)
              => /\ NotFoundShape(resp'.body, "Compile job not found")
                 /\ UNCHANGED stores
       /\ (resp'.op = "read_backtest" /\ resp'.id \notin DOMAIN backtests)
              => /\ NotFoundShape(resp'.body, "Backtest not found")
                 /\ UNCHANGED stores]_vars

\* a backtests/read with the id of a compile job was answered "not found"
C9_Witness ==
    /\ resp.op = "read_backtest"
    /\ resp.id \in DOMAIN compiles
    /\ resp.body = [success |-> FALSE, errors |-> <<"Backtest not found">>]

\* every job created so far has a runner that has finished
AllRunnersFinished == used # {} /\ \A id \in used : rpc[id] = "done"

\* C10: once all runners have finished, each compile record is in state
\* BuildSuccess with exactly the two log lines and each backtest record is
\* completed with progress 1.0 and the fixed payload, each under its own id
\* and with no field of another job or kind.
C10_IndependentTerminalStates ==
    AllRunnersFinished =>
        /\ \A id \in DOMAIN compiles :
               compiles[id] =
                   [compileId |-> id,
                    state |-> "BuildSuccess",
                    logs |-> <<"Compilation started", "Compilation completed successfully">>,
                    success |-> TRUE,
                    errors |-> <<>>]
        /\ \A id \in DOMAIN backtests :
               /\ backtests[id].backtestId = id
               /\ DOMAIN backtests[id] = DOMAIN backtest_info(id, "")
               /\ BacktestTerminal(id)
               /\ [backtests[id].result EXCEPT !.TotalPerformance = 0]
                      = [ZeroResult EXCEPT !.TotalPerformance = 0]
               /\ backtests[id].success = TRUE
               /\ backtests[id].errors = <<>>
        /\ DOMAIN compiles \cap DOMAIN backtests = {}
        /\ DOMAIN compiles \cup DOMAIN backtests = used

\* two jobs, a backtest among them, ran concurrently and all have finished
C10_Witness ==
    AllRunnersFinished /\ Cardinality(used) >= 2 /\ DOMAIN backtests # {}

\* the elements of a sequence
Range(seq) == {seq[i] : i \in 1..Len(seq)}

\* C11: a backtests/read without backtestId that names a project returns
\* success true and exactly the backtests that were created with that
\* projectId.
C11_ListReturnsProjectBacktests ==
    (resp.op = "read_backtest_list" /\ resp.id \in DOMAIN projects) =>
        /\ resp.body.success = TRUE
        /\ {bt.backtestId : bt \in Range(resp.body.backtests)}
               = {b \in DOMAIN backtests : owner[b] = resp.id}

\* "Bearer " followed by one of the valid tokens
ValidBearer(h) == h.prefix = "Bearer " /\ h.rest \in {"demo-token-123", "test-token-456"}

\* C12: a request to an endpoint other than authenticate whose Authorization
\* header is missing or is not "Bearer " plus a valid token is answered with
\* success false and errors ["Unauthorized"], and changes no store.
C12_UnauthorizedRejected ==
    [][(req'.op \notin {"none", "authenticate"} /\ ~ValidBearer(req'.auth)) =>
           /\ resp'.op # "none"
           /\ resp'.body = [success |-> FALSE, errors |-> <<"Unauthorized">>]
           /\ UNCHANGED stores]_vars

\* C13: a compile/create or backtests/create whose projectId is not an
\* existing project returns success false with errors ["Project not found"],
\* registers no record and launches no runner.
C13_CreateWithoutProjectRejected ==
    [][(req'.op \in {"create_compile", "create_backtest"} /\ req'.arg \notin DOMAIN projects) =>
           /\ resp'.op = req'.op
           /\ resp'.body = [success |-> FALSE, errors |-> <<"Project not found">>]
           /\ UNCHANGED <<projects, files, compiles, backtests, used, hpc, rpc, ri>>]_vars

\* a backtests/create for a missing project was rejected while a project
\* exists
C13_Witness ==
    /\ req.op = "create_backtest"
    /\ req.arg \notin DOMAIN projects
    /\ DOMAIN projects # {}
    /\ resp.body.errors = <<"Project not found">>

\* C14: the response of a successful create is the initial record:
\* backtests/create returns completed false, progress 0.0 and a zero-value
\* result, compile/create returns state InQueue and logs ["Compilation
\* started"], under every interleaving of the handler and the runner.
C14_CreateReturnsInitialRecord ==
    /\ (resp.op = "create_backtest" /\ resp.body.success) =>
           /\ resp.body.completed = FALSE
           /\ resp.body.progress = 0
           /\ Stats(resp.body) = ZeroStats
    /\ (resp.op = "create_compile" /\ resp.body.success) =>
           /\ resp.body.state = "InQueue"
           /\ resp.body.logs = <<"Compilation started">>

\* C15: a backtest record starts at progress 0.0; the runner performs at
\* most 10 ticks, each tick raises progress by exactly one tenth, progress
\* changes in no other way, and completed becomes true only after the 10th
\* tick, with progress at 1.0.
C15_TenTicksOfOneTenth ==
    [][/\ \A id \in DOMAIN backtests' \ DOMAIN backtests :
              backtests'[id].progress = 0 /\ ri'[id] = 0
       /\ \A id \in DOMAIN backtests :
              /\ backtests[id].progress \in {10 * k : k \in 0..10}
              /\ backtests'[id].progress \in
                     {backtests[id].progress, backtests[id].progress + 10}
              /\ ri'[id] # ri[id] =>
                     /\ ri'[id] = ri[id] + 1
                     /\ ri'[id] <= 10
                     /\ backtests'[id].progress = backtests[id].progress + 10
                     /\ backtests'[id].progress = 10 * ri'[id]
              /\ (~backtests[id].completed /\ backtests'[id].completed) =>
                     /\ ri[id] = 10
                     /\ backtests[id].progress = 100]_vars

\* a backtest has run its 10 ticks and is completed
C15_Witness ==
    \E id \in DOMAIN backtests :
        ri[id] = 10 /\ backtests[id].completed /\ backtests[id].progress = 100

\* this step is a step of the runner of job id and of no other runner
OnlyRunnerMoved(id) ==
    /\ <<rpc'[id], ri'[id]>> # <<rpc[id], ri[id]>>
    /\ rpc[id] \notin {"none", "done"}
    /\ \A other \in Uuids \ {id} : rpc'[other] = rpc[other] /\ ri'[other] = ri[other]

\* C16: after its creation a job record is written only by its own runner,
\* a runner is launched once per job id, by the handler that registered the
\* job, and the read requests change no record, no store and no thread.
C16_OnlyOwnRunnerWrites ==
    [][/\ \A id \in DOMAIN compiles :
              (id \notin DOMAIN compiles' \/ compiles'[id] # compiles[id])
                  => OnlyRunnerMoved(id)
       /\ \A id \in DOMAIN backtests :
              (id \notin DOMAIN backtests' \/ backtests'[id] # backtests[id])
                  => OnlyRunnerMoved(id)
       /\ \A id \in Uuids :
              (rpc[id] = "none" /\ rpc'[id] # "none") =>
                  /\ hpc[id] \in {"registered_compile", "registered_backtest"}
                  /\ hpc'[id] \in {"started_compile", "started_backtest"}
       /\ \A id \in Uuids :
              rpc[id] # "none" =>
                  /\ rpc'[id] # "none"
                  /\ hpc'[id] \notin {"registered_compile", "registered_backtest"}
       /\ req'.op \in {"read_compile", "read_backtest", "read_backtest_list"} =>
              UNCHANGED <<projects, files, compiles, backtests, used, ppc, ppid, hpc, rpc, ri>>]_vars

\* a read by id has run while the runner of that job was between two writes
C16_Witness ==
    /\ req.op = "read_backtest"
    /\ req.arg \in DOMAIN backtests
    /\ rpc[req.arg] = "tick"
    /\ ri[req.arg] = 5

\* C17: a registered compileId or backtestId stays in its store; every later
\* read of it returns the record, never the not-found payload; a runner
\* that has writes left finds its record in its store.
C17_RecordsNeverDeleted ==
    [][/\ DOMAIN compiles \subseteq DOMAIN compiles'
       /\ DOMAIN backtests \subseteq DOMAIN backtests'
       /\ \A id \in DOMAIN compiles :
              (resp'.op = "read_compile" /\ resp'.id = id) =>
                  (resp'.body = compiles[id] /\ resp'.body.compileId = id)
       /\ \A id \in DOMAIN backtests :
              (resp'.op = "read_backtest" /\ resp'.id = id) =>
                  (resp'.body = backtests[id] /\ resp'.body.backtestId = id)
       /\ \A id \in Uuids :
              /\ rpc'[id] \in {"state", "logs"} => id \in DOMAIN compiles'
              /\ rpc'[id] \in {"tick", "completed", "progress", "trades",
                               "winrate", "netprofit", "sharpe"}
                     => id \in DOMAIN backtests']_vars

\* a job that was registered first has finished and is read after a second
\* job was registered
C17_Witness ==
    /\ resp.op = "read_compile"
    /\ resp.id \in DOMAIN compiles
    /\ rpc[resp.id] = "done"
    /\ Cardinality(used) >= 2
    /\ resp.body.state = "BuildSuccess"

\* C18: a compile record never leaves state BuildSuccess and a backtest
\* record's completed flag never goes from true back to false.
C18_NoBackwardTransition ==
    [][/\ \A id \in DOMAIN compiles :
              compiles[id].state = "BuildSuccess" =>
                  (id \in DOMAIN compiles' /\ compiles'[id].state = "BuildSuccess")
       /\ \A id \in DOMAIN backtests :
              backtests[id].completed =>
                  (id \in DOMAIN backtests' /\ backtests'[id].completed)]_vars

\* a compile record is in BuildSuccess and a backtest record is completed,
\* each with a write of its runner still to come
C18_Witness ==
    /\ \E id \in DOMAIN compiles : compiles[id].state = "BuildSuccess" /\ rpc[id] = "logs"
    /\ \E id \in DOMAIN backtests : backtests[id].completed /\ rpc[id] = "trades"

\* s is a prefix of t
IsPrefix(s, t) == Len(s) <= Len(t) /\ \A i \in 1..Len(s) : s[i] = t[i]

\* C19: the logs of a compile record are append-only: from one state to the
\* next the earlier logs are a prefix of the later, the logs are
\* ["Compilation started"] or that line followed by "Compilation completed
\* successfully", and the completion line is appended once.
C19_LogsAppendOnly ==
    [][\A id \in DOMAIN compiles :
          /\ IsPrefix(compiles[id].logs, compiles'[id].logs)
          /\ compiles'[id].logs \in
                 {<<"Compilation started">>,
                  <<"Compilation started", "Compilation completed successfully">>}
          /\ Len(compiles[id].logs) = 2 => compiles'[id].logs = compiles[id].logs
          /\ Len(compiles'[id].logs) > Len(compiles[id].logs) => rpc[id] = "logs"]_vars

\* a compile runner has appended the completion line
C19_Witness ==
    \E id \in DOMAIN compiles : rpc[id] = "done" /\ Len(compiles[id].logs) = 2

\* C20: no failure state is reachable: every compile record has success
\* true, no errors and state InQueue or BuildSuccess, and every backtest
\* record has success true, no errors and empty error and stacktrace.
C20_NoFailureState ==
    /\ \A id \in DOMAIN compiles :
           /\ compiles[id].success = TRUE
           /\ compiles[id].errors = <<>>
           /\ compiles[id].state \in {"InQueue", "BuildSuccess"}
           /\ compiles[id].state # "BuildError"
    /\ \A id \in DOMAIN backtests :
           /\ backtests[id].success = TRUE
           /\ backtests[id].errors = <<>>
           /\ backtests[id].error = ""
           /\ backtests[id].stacktrace = ""

\* a compile job and a backtest job have both run to their end
C20_Witness ==
    /\ \E id \in DOMAIN compiles : rpc[id] = "done"
    /\ \E id \in DOMAIN backtests : rpc[id] = "done"

\* the threads of projects/create that have computed their project_id
Computed == {t \in ProjThreads : ppc[t] # "idle"}

\* C21: concurrent projects/create requests get pairwise different
\* project ids, no step overwrites an existing entry of projects, and no
\* step resets an existing entry of files.
C21_ProjectIdsDistinct ==
    [][/\ \A t1, t2 \in Computed' : t1 # t2 => ppid'[t1] # ppid'[t2]
       /\ \A p \in DOMAIN projects : projects'[p] = projects[p]
       /\ \A p \in DOMAIN files : IsPrefix(files[p], files'[p])]_vars

\* C22: in every state every project id present in projects has an entry
\* in files, and no files/create or files/read on an existing project fails
\* with KeyError.
C22_ProjectHasFilesEntry ==
    /\ DOMAIN projects \subseteq DOMAIN files
    /\ resp.op \in {"create_file", "read_files"} => resp.body # KeyError

\* the last step was a backtests/create for an existing project
CreateBacktestAccepted == req.op = "create_backtest" /\ req.arg \in DOMAIN projects

\* the compileId of the last request is absent
CompileIdAbsent == req.compileId = 0

\* the compileId of the last request names no compile job
CompileIdUnknown == req.compileId # 0 /\ req.compileId \notin DOMAIN compiles

\* the compileId of the last request names a compile job still in InQueue
CompileIdInQueue ==
    /\ req.compileId \in DOMAIN compiles
    /\ compiles[req.compileId].state = "InQueue"

\* C23: a backtests/create for an existing project registers its record
\* and its runner runs to completion, whether the compileId of the request
\* is absent, unknown, or names a compile job that is still InQueue.
C23_BacktestIndependentOfCompile ==
    /\ [][(CreateBacktestAccepted' /\ (CompileIdAbsent' \/ CompileIdUnknown' \/ CompileIdInQueue')) =>
              /\ req'.id \in DOMAIN backtests' \ DOMAIN backtests
              /\ backtests'[req'.id].success = TRUE
              /\ backtests'[req'.id].completed = FALSE
              /\ hpc'[req'.id] = "registered_backtest"]_vars
    /\ \A id \in Uuids :
           (/\ CreateBacktestAccepted
            /\ req.id = id
            /\ (CompileIdAbsent \/ CompileIdUnknown \/ CompileIdInQueue))
               ~> (rpc[id] = "done" /\ BacktestTerminal(id))

\* a backtest was registered with the compileId of a compile job that is
\* still InQueue
C23_Witness ==
    /\ CreateBacktestAccepted
    /\ CompileIdInQueue
    /\ req.id \in DOMAIN backtests

====
